---- MODULE Spec2Model ----
(***************************************************************************)
(* A model of src/alife.py: the rabbit / fox / grass ecosystem.            *)
(*                                                                         *)
(* An Animal is a record; the Field is the grass grid plus the two         *)
(* population lists.  Every random draw of the program (start position,    *)
(* move deltas, litter size, grass mask) is a nondeterministic choice.     *)
(* Python object identity is kept in the record field id.                  *)
(***************************************************************************)
EXTENDS Integers, Sequences, FiniteSets, TLC

VARIABLES
    field,        \* Field.field: cell -> 0 (no grass) or 1 (grass)
    rabbits,      \* Field.rabbits: list of Animal
    foxes,        \* Field.foxes: list of Animal
    GRASS_RATE,   \* module constant GRASS_RATE, in thousandths (0.035 is 35)
    nextId,       \* identity of the next object to be created
    pc,           \* inside generation(): phases completed so far; 0 outside
    op,           \* the method that completed last
    gen,          \* completed generation() calls
    calls,        \* direct calls of Field methods made by the caller
    display,      \* the array returned by the last get_display_array()
    a,            \* an Animal held by the caller outside any Field
    ret,          \* the list returned by the last a.reproduce()
    streak,       \* consecutive a.starve() calls since a was alive with hunger 0
    rabbit_counts,  \* main(): the list rabbit_counts handed to animate()
    fox_counts,     \* main(): the list fox_counts handed to animate()
    twin          \* a second Field holding the same animals in another order

vars == <<field, rabbits, foxes, GRASS_RATE, nextId, pc, op, gen, calls,
          display, a, ret, streak, rabbit_counts, fox_counts, twin>>


(***************************************************************************)
(* Program constants                                                       *)
(***************************************************************************)
\* grid side; the source runs 65, the model a grid small enough to enumerate
ARRSIZE == 2

COLOR_EMPTY == 0
COLOR_GRASS == 1
COLOR_RABBIT == 2
COLOR_FOX == 3

\* GRASS_RATE = 0.035, in thousandths
DEFAULT_GRASS_RATE == 35

(***************************************************************************)
(* Bounds of the model                                                     *)
(***************************************************************************)
MaxRabbits == 2       \* longest rabbit list
MaxFoxes == 2         \* longest fox list
MaxInitRabbits == 2   \* most rabbits a generation() run starts with
MaxInitFoxes == 1     \* most foxes a generation() run starts with
MaxStarvation == 2    \* largest starvation_level drawn
MaxReproduction == 2  \* largest reproduction_level drawn
MaxOffspring == 2     \* largest max_offspring drawn
MaxHunger == 3        \* starve() is not called on hunger beyond this
MaxEaten == 3         \* eat() is not called on eaten beyond this
MaxGen == 2           \* generation() calls in one run
MaxCalls == 2         \* direct method calls in one run
MaxAmount == 2        \* largest amount passed to eat()
MaxFrames == 3        \* animate() calls in one run of main()

Coord == 0 .. (ARRSIZE - 1)
Cells == Coord \X Coord
Deltas == {-1, 0, 1}

Pos(an) == <<an.x, an.y>>

(***************************************************************************)
(* class Animal                                                            *)
(***************************************************************************)
\* Animal.__init__: x and y are the two rnd.randrange(0, ARRSIZE) draws
Animal(id, species, max_offspring, starvation_level, reproduction_level, x, y) ==
    [id |-> id,
     species |-> species,
     max_offspring |-> max_offspring,
     starvation_level |-> starvation_level,
     reproduction_level |-> reproduction_level,
     hunger |-> 0,
     eaten |-> 0,
     alive |-> TRUE,
     x |-> x,
     y |-> y]

move_no_wrap(an, dx, dy) ==
    [an EXCEPT !.x = an.x + dx,
               !.y = an.y + dy]

\* Animal.move: dx and dy are the two rnd.choice([-1, 0, 1]) draws
move(an, dx, dy) ==
    [an EXCEPT !.x = (an.x + dx) % ARRSIZE,
               !.y = (an.y + dy) % ARRSIZE]

\* Animal.eat
eat(an, amount) ==
    [an EXCEPT !.eaten = an.eaten + amount,
               !.hunger = 0]

starve_late(an) ==
    [an EXCEPT !.hunger = an.hunger + 1,
               !.alive = IF an.hunger + 1 > an.starvation_level
                         THEN FALSE ELSE an.alive]

\* Animal.starve
starve(an) ==
    [an EXCEPT !.hunger = an.hunger + 1,
               !.alive = IF an.hunger + 1 >= an.starvation_level
                         THEN FALSE ELSE an.alive]

\* Animal.can_reproduce
can_reproduce(an) == an.eaten >= an.reproduction_level

\* copy.deepcopy(self): a new object, every attribute copied
deepcopy(an, id) == [an EXCEPT !.id = id]

reproduce_copy_first(an, n, id0) ==
    [parent |-> [an EXCEPT !.eaten = 0],
     offspring |-> [k \in 1 .. n |-> deepcopy(an, id0 + k - 1)]]

\* Animal.reproduce: n is the rnd.randint(0, max_offspring) draw, id0 the
\* identity of the first copy.  The parent is reset before it is copied.
reproduce(an, n, id0) ==
    LET parent == [an EXCEPT !.eaten = 0]
    IN  [parent |-> parent,
         offspring |-> [k \in 1 .. n |-> deepcopy(parent, id0 + k - 1)]]

(***************************************************************************)
(* class Field                                                             *)
(***************************************************************************)
\* Field.__init__: np.ones((ARRSIZE, ARRSIZE)), every cell has grass
NewField == [c \in Cells |-> 1]

\* Field.add_animal, on the lists
add_animal(rs, fs, an) ==
    IF an.species = "rabbit" THEN [rabbits |-> Append(rs, an), foxes |-> fs]
    ELSE IF an.species = "fox" THEN [rabbits |-> rs, foxes |-> Append(fs, an)]
    ELSE [rabbits |-> rs, foxes |-> fs]

\* what one a.move() can make of an: one animal per pair of rnd.choice draws
Moves(an) == {move(an, d[1], d[2]) : d \in Deltas \X Deltas}

RECURSIVE move_all(_)
\* the loop of move_animals over one list: the lists it can leave, each
\* member moved once by draws of its own
move_all(pop) ==
    IF pop = <<>> THEN {<<>>}
    ELSE {<<m>> \o rest : m \in Moves(Head(pop)), rest \in move_all(Tail(pop))}

\* Field.move_animals: for a in self.rabbits + self.foxes: a.move()
move_animals(rs, fs) ==
    {[rabbits |-> mr, foxes |-> mf] : mr \in move_all(rs), mf \in move_all(fs)}

\* the masks (np.random.rand(...) < GRASS_RATE) can be: a cell's draw lies in
\* [0, 1), so it can be below the rate iff the rate is positive and can be
\* at or above it iff the rate is below 1
GrowMasks(rate) ==
    {m \in [Cells -> {0, 1}] :
        \A c \in Cells : (m[c] = 1 => rate > 0) /\ (m[c] = 0 => rate < 1000)}

Max(i, j) == IF i >= j THEN i ELSE j

grow_grass_overwrite(fld, grow) == grow

\* Field.grow_grass: np.maximum(self.field, grow)
grow_grass(fld, grow) == [c \in Cells |-> Max(fld[c], grow[c])]

feed_rabbits_step_shared(fld, rs, i) ==
    LET r == rs[i]
    IN  IF fld[Pos(r)] = 1
        THEN [field |-> fld, rabbits |-> [rs EXCEPT ![i] = eat(r, 1)]]
        ELSE [field |-> fld, rabbits |-> [rs EXCEPT ![i] = starve(r)]]

\* Field.feed_rabbits, the loop body for the i-th rabbit
feed_rabbits_step(fld, rs, i) ==
    LET r == rs[i]
    IN  IF fld[Pos(r)] = 1
        THEN [field |-> [fld EXCEPT ![Pos(r)] = 0],
              rabbits |-> [rs EXCEPT ![i] = eat(r, 1)]]
        ELSE [field |-> fld, rabbits |-> [rs EXCEPT ![i] = starve(r)]]

RECURSIVE feed_rabbits_from(_, _, _)
feed_rabbits_from(fld, rs, i) ==
    IF i > Len(rs) THEN [field |-> fld, rabbits |-> rs]
    ELSE LET s == feed_rabbits_step(fld, rs, i)
         IN  feed_rabbits_from(s.field, s.rabbits, i + 1)

\* Field.feed_rabbits
feed_rabbits(fld, rs) == feed_rabbits_from(fld, rs, 1)

\* the indices, in list order, of the rabbits standing on cell c
RabbitsAt(rs, c) == SelectSeq([i \in DOMAIN rs |-> i], LAMBDA i : Pos(rs[i]) = c)

\* Field.feed_foxes, rabbit_locations: cell -> the rabbits on it
rabbit_locations(rs) ==
    [c \in {Pos(rs[i]) : i \in DOMAIN rs} |-> RabbitsAt(rs, c)]

InSeq(e, s) == \E k \in DOMAIN s : s[k] = e

feed_foxes_step_one_kill(locs, rs, fs, i) ==
    LET f == fs[i]
    IN  IF Pos(f) \in DOMAIN locs
        THEN [rabbits |-> [j \in DOMAIN rs |->
                              IF j = locs[Pos(f)][1]
                              THEN [rs[j] EXCEPT !.alive = FALSE] ELSE rs[j]],
              foxes |-> [fs EXCEPT ![i] = eat(f, 1)]]
        ELSE [rabbits |-> rs, foxes |-> [fs EXCEPT ![i] = starve(f)]]

feed_foxes_step_live_only(locs, rs, fs, i) ==
    LET f == fs[i]
        live == IF Pos(f) \in DOMAIN locs
                THEN SelectSeq(locs[Pos(f)], LAMBDA j : rs[j].alive) ELSE <<>>
    IN  IF Pos(f) \in DOMAIN locs
        THEN [rabbits |-> [j \in DOMAIN rs |->
                              IF InSeq(j, locs[Pos(f)])
                              THEN [rs[j] EXCEPT !.alive = FALSE] ELSE rs[j]],
              foxes |-> [fs EXCEPT ![i] = eat(f, Len(live))]]
        ELSE [rabbits |-> rs, foxes |-> [fs EXCEPT ![i] = starve(f)]]

feed_foxes_step_skip_dead(locs, rs, fs, i) ==
    LET f == fs[i]
        live == IF Pos(f) \in DOMAIN locs
                THEN SelectSeq(locs[Pos(f)], LAMBDA j : rs[j].alive) ELSE <<>>
    IN  IF live # <<>>
        THEN [rabbits |-> [j \in DOMAIN rs |->
                              IF InSeq(j, locs[Pos(f)])
                              THEN [rs[j] EXCEPT !.alive = FALSE] ELSE rs[j]],
              foxes |-> [fs EXCEPT ![i] = eat(f, Len(locs[Pos(f)]))]]
        ELSE [rabbits |-> rs, foxes |-> [fs EXCEPT ![i] = starve(f)]]

\* Field.feed_foxes, the loop body for the i-th fox
feed_foxes_step(locs, rs, fs, i) ==
    LET f == fs[i]
    IN  IF Pos(f) \in DOMAIN locs
        THEN [rabbits |-> [j \in DOMAIN rs |->
                              IF InSeq(j, locs[Pos(f)])
                              THEN [rs[j] EXCEPT !.alive = FALSE] ELSE rs[j]],
              foxes |-> [fs EXCEPT ![i] = eat(f, Len(locs[Pos(f)]))]]
        ELSE [rabbits |-> rs, foxes |-> [fs EXCEPT ![i] = starve(f)]]

RECURSIVE feed_foxes_from(_, _, _, _)
feed_foxes_from(locs, rs, fs, i) ==
    IF i > Len(fs) THEN [rabbits |-> rs, foxes |-> fs]
    ELSE LET s == feed_foxes_step(locs, rs, fs, i)
         IN  feed_foxes_from(locs, s.rabbits, s.foxes, i + 1)

\* Field.feed_foxes
feed_foxes(rs, fs) == feed_foxes_from(rabbit_locations(rs), rs, fs, 1)

IsAlive(an) == an.alive

remove_dead_keeps_hungry(pop) == SelectSeq(pop, LAMBDA an : an.alive \/ an.hunger > 0)

RECURSIVE remove_while_iterating(_, _)
remove_while_iterating(pop, i) ==
    IF i > Len(pop) THEN pop
    ELSE IF pop[i].alive THEN remove_while_iterating(pop, i + 1)
    ELSE remove_while_iterating(
             SubSeq(pop, 1, i - 1) \o SubSeq(pop, i + 1, Len(pop)), i + 1)

remove_dead_in_place(pop) == remove_while_iterating(pop, 1)

\* Field.remove_dead, for one list: [r for r in pop if r.alive]
remove_dead(pop) == SelectSeq(pop, IsAlive)

\* Field.reproduce_animals, one of its two scans: n[i] is the litter drawn by
\* the i-th animal should it reproduce, id0 the identity of the first newborn.
\* Returns the scanned list (parents reset) and the born buffer.
RECURSIVE reproduce_scan(_, _, _, _, _)
reproduce_scan(pop, n, id0, i, born) ==
    IF i > Len(pop) THEN [pop |-> pop, born |-> born]
    ELSE IF can_reproduce(pop[i])
         THEN LET r == reproduce(pop[i], n[i], id0 + Len(born))
              IN  reproduce_scan([pop EXCEPT ![i] = r.parent], n, id0, i + 1,
                                 born \o r.offspring)
         ELSE reproduce_scan(pop, n, id0, i + 1, born)

reproduce_animals_born_first(rs, fs, nr, nf, id0) ==
    LET sr == reproduce_scan(rs, nr, id0, 1, <<>>)
        sf == reproduce_scan(fs, nf, id0 + Len(sr.born), 1, <<>>)
    IN  [rabbits |-> sr.born \o sr.pop,
         foxes |-> sf.born \o sf.pop,
         nextId |-> id0 + Len(sr.born) + Len(sf.born)]

\* Field.reproduce_animals
reproduce_animals(rs, fs, nr, nf, id0) ==
    LET sr == reproduce_scan(rs, nr, id0, 1, <<>>)
        sf == reproduce_scan(fs, nf, id0 + Len(sr.born), 1, <<>>)
    IN  [rabbits |-> sr.pop \o sr.born,
         foxes |-> sf.pop \o sf.born,
         nextId |-> id0 + Len(sr.born) + Len(sf.born)]

RECURSIVE overlay(_, _, _, _)
\* one overlay loop of get_display_array: display[a.x, a.y] = color
overlay(disp, pop, color, i) ==
    IF i > Len(pop) THEN disp
    ELSE overlay([disp EXCEPT ![Pos(pop[i])] = color], pop, color, i + 1)

get_display_array_rabbits_on_top(fld, rs, fs) ==
    [field |-> fld,
     display |-> overlay(overlay(fld, fs, COLOR_FOX, 1), rs, COLOR_RABBIT, 1)]

\* Field.get_display_array: the overlays are written to self.field.copy(), so
\* self.field stays as it is
get_display_array(fld, rs, fs) ==
    LET copy == fld
    IN  [field |-> fld,
         display |-> overlay(overlay(copy, rs, COLOR_RABBIT, 1), fs, COLOR_FOX, 1)]

(***************************************************************************)
(* Calls on one Animal held outside any Field                              *)
(***************************************************************************)
\* no get_display_array() result is held
NoDisplay == <<>>

\* no second Field is kept
NoTwin == <<>>

\* a fresh Field with empty lists, nothing called yet
FieldIdle ==
    /\ field = NewField
    /\ rabbits = <<>>
    /\ foxes = <<>>
    /\ GRASS_RATE = DEFAULT_GRASS_RATE
    /\ pc = 0
    /\ gen = 0
    /\ calls = 0
    /\ display = NoDisplay
    /\ rabbit_counts = <<>>
    /\ fox_counts = <<>>
    /\ twin = NoTwin

\* a = Animal(species, max_offspring, starvation_level, reproduction_level)
InitAnimal ==
    /\ FieldIdle
    /\ op = "__init__"
    /\ nextId = 1
    /\ \E sp \in {"rabbit", "fox"}, mo \in 0 .. MaxOffspring,
          sl \in 1 .. MaxStarvation, rl \in 1 .. MaxReproduction,
          x \in Coord, y \in Coord :
          a = Animal(0, sp, mo, sl, rl, x, y)
    /\ ret = <<>>
    /\ streak = 0

\* a.move()
AnimalMove ==
    /\ \E dx \in Deltas, dy \in Deltas : a' = move(a, dx, dy)
    /\ op' = "move"
    /\ ret' = <<>>
    /\ UNCHANGED <<field, rabbits, foxes, GRASS_RATE, nextId, pc, gen, calls,
                   display, streak, rabbit_counts, fox_counts, twin>>

\* a.eat(amount)
AnimalEat ==
    /\ \E amount \in 1 .. MaxAmount :
          /\ a.eaten + amount <= MaxEaten
          /\ a' = eat(a, amount)
    /\ op' = "eat"
    /\ ret' = <<>>
    /\ streak' = IF a.alive THEN 0 ELSE -1
    /\ UNCHANGED <<field, rabbits, foxes, GRASS_RATE, nextId, pc, gen, calls,
                   display, rabbit_counts, fox_counts, twin>>

\* a.starve()
AnimalStarve ==
    /\ a.hunger < MaxHunger
    /\ a' = starve(a)
    /\ op' = "starve"
    /\ ret' = <<>>
    /\ streak' = IF streak >= 0 THEN streak + 1 ELSE -1
    /\ UNCHANGED <<field, rabbits, foxes, GRASS_RATE, nextId, pc, gen, calls,
                   display, rabbit_counts, fox_counts, twin>>

\* ret = a.reproduce()
AnimalReproduce ==
    /\ \E n \in 0 .. a.max_offspring :
          LET r == reproduce(a, n, 1)
          IN  /\ a' = r.parent
              /\ ret' = r.offspring
    /\ op' = "reproduce"
    /\ UNCHANGED <<field, rabbits, foxes, GRASS_RATE, nextId, pc, gen, calls,
                   display, streak, rabbit_counts, fox_counts, twin>>

NextAnimal == AnimalMove \/ AnimalEat \/ AnimalStarve \/ AnimalReproduce

SpecAnimal == InitAnimal /\ [][NextAnimal]_vars

\* the levels a caller may pass to Animal(...): __init__ stores what it is
\* given, so zero and negative levels are among them
AnyLevels == {-1, 0} \cup (1 .. MaxStarvation)

\* a = Animal(species, max_offspring, starvation_level, reproduction_level)
\* with any levels
InitConfig ==
    /\ FieldIdle
    /\ op = "__init__"
    /\ nextId = 1
    /\ \E sp \in {"rabbit", "fox"}, mo \in 0 .. MaxOffspring,
          sl \in AnyLevels, rl \in AnyLevels, x \in Coord, y \in Coord :
          a = Animal(0, sp, mo, sl, rl, x, y)
    /\ ret = <<>>
    /\ streak = 0

SpecConfig == InitConfig /\ [][NextAnimal]_vars

(***************************************************************************)
(* The Field's methods as steps                                            *)
(***************************************************************************)
\* no Animal is held outside the Field
NoAnimal == <<>>

\* the litters one scan of reproduce_animals() can draw: randint(0,
\* max_offspring) for an animal that reproduces, no draw for one that does not
LitterDraws(pop) ==
    {n \in [DOMAIN pop -> 0 .. MaxOffspring] :
        \A i \in DOMAIN pop :
            /\ n[i] <= pop[i].max_offspring
            /\ ~can_reproduce(pop[i]) => n[i] = 0}

DoMoveAnimals ==
    /\ \E m \in move_animals(rabbits, foxes) :
          /\ rabbits' = m.rabbits
          /\ foxes' = m.foxes
    /\ UNCHANGED <<field, nextId>>

DoFeedRabbits ==
    /\ LET s == feed_rabbits(field, rabbits)
       IN  /\ field' = s.field
           /\ rabbits' = s.rabbits
    /\ UNCHANGED <<foxes, nextId>>

DoFeedFoxes ==
    /\ LET s == feed_foxes(rabbits, foxes)
       IN  /\ rabbits' = s.rabbits
           /\ foxes' = s.foxes
    /\ UNCHANGED <<field, nextId>>

DoRemoveDead ==
    /\ rabbits' = remove_dead(rabbits)
    /\ foxes' = remove_dead(foxes)
    /\ UNCHANGED <<field, nextId>>

\* litters that would grow a list beyond MaxRabbits / MaxFoxes are not drawn
DoReproduceAnimals ==
    /\ \E nr \in LitterDraws(rabbits), nf \in LitterDraws(foxes) :
          LET s == reproduce_animals(rabbits, foxes, nr, nf, nextId)
          IN  /\ Len(s.rabbits) <= MaxRabbits
              /\ Len(s.foxes) <= MaxFoxes
              /\ rabbits' = s.rabbits
              /\ foxes' = s.foxes
              /\ nextId' = s.nextId
    /\ UNCHANGED field

DoGrowGrass ==
    /\ \E grow \in GrowMasks(GRASS_RATE) : field' = grow_grass(field, grow)
    /\ UNCHANGED <<rabbits, foxes, nextId>>

\* the body of the Field method called name
Body(name) ==
    CASE name = "move_animals" -> DoMoveAnimals
      [] name = "feed_rabbits" -> DoFeedRabbits
      [] name = "feed_foxes" -> DoFeedFoxes
      [] name = "remove_dead" -> DoRemoveDead
      [] name = "reproduce_animals" -> DoReproduceAnimals
      [] name = "grow_grass" -> DoGrowGrass

\* a direct call of a Field method, outside generation()
Call(name) ==
    /\ pc = 0
    /\ calls < MaxCalls
    /\ Body(name)
    /\ op' = name
    /\ calls' = calls + 1
    /\ display' = NoDisplay
    /\ UNCHANGED <<GRASS_RATE, pc, gen, a, ret, streak, rabbit_counts,
                   fox_counts, twin>>

CallMoveAnimals == Call("move_animals")
CallFeedRabbits == Call("feed_rabbits")
CallFeedFoxes == Call("feed_foxes")
CallRemoveDead == Call("remove_dead")
CallReproduceAnimals == Call("reproduce_animals")
CallGrowGrass == Call("grow_grass")

\* display = field.get_display_array()
CallGetDisplayArray ==
    /\ pc = 0
    /\ calls < MaxCalls
    /\ LET r == get_display_array(field, rabbits, foxes)
       IN  /\ display' = r.display
           /\ field' = r.field
    /\ op' = "get_display_array"
    /\ calls' = calls + 1
    /\ UNCHANGED <<rabbits, foxes, GRASS_RATE, nextId, pc, gen, a, ret, streak,
                   rabbit_counts, fox_counts, twin>>

GenerationReordered ==
    <<"move_animals", "feed_rabbits", "feed_foxes", "reproduce_animals",
      "remove_dead", "grow_grass">>

\* Field.generation: the calls it makes, in order
GenerationOrder ==
    <<"move_animals", "feed_rabbits", "feed_foxes", "remove_dead",
      "reproduce_animals", "grow_grass">>

\* generation() makes its next call
GenerationPhase ==
    /\ pc < Len(GenerationOrder)
    /\ pc = 0 => gen < MaxGen
    /\ Body(GenerationOrder[pc + 1])
    /\ op' = GenerationOrder[pc + 1]
    /\ pc' = pc + 1
    /\ display' = NoDisplay
    /\ UNCHANGED <<GRASS_RATE, gen, calls, a, ret, streak, rabbit_counts,
                   fox_counts, twin>>

\* generation() returns
GenerationReturn ==
    /\ pc = Len(GenerationOrder)
    /\ pc' = 0
    /\ op' = "generation"
    /\ gen' = gen + 1
    /\ UNCHANGED <<field, rabbits, foxes, GRASS_RATE, nextId, calls, display,
                   a, ret, streak, rabbit_counts, fox_counts, twin>>

(***************************************************************************)
(* Initial habitats                                                        *)
(***************************************************************************)
EmptyField == [c \in Cells |-> 0]

\* the position lists of at most n animals
PosLists(n) == UNION {[1 .. k -> Cells] : k \in 0 .. n}

\* len(ps) animals of one species straight from Animal(...), at positions ps
FreshPop(species, par, ps, id0) ==
    [i \in DOMAIN ps |->
        Animal(id0 + i - 1, species, par[1], par[2], par[3], ps[i][1], ps[i][2])]

\* Field(), the grid set to one of flds, then add_animal() of at most nr fresh
\* rabbits built with one of the parameter triples rpars and of at most nf
\* fresh foxes built with one of fpars
InitHabitat(flds, rates, nr, rpars, nf, fpars) ==
    /\ field \in flds
    /\ GRASS_RATE \in rates
    /\ \E rp \in PosLists(nr), fp \in PosLists(nf),
          rpar \in rpars, fpar \in fpars :
          /\ rabbits = FreshPop("rabbit", rpar, rp, 1)
          /\ foxes = FreshPop("fox", fpar, fp, Len(rp) + 1)
          /\ nextId = Len(rp) + Len(fp) + 1
    /\ pc = 0
    /\ op = "__init__"
    /\ gen = 0
    /\ calls = 0
    /\ display = NoDisplay
    /\ ret = <<>>
    /\ streak = 0
    /\ rabbit_counts = <<>>
    /\ fox_counts = <<>>

\* the smallest (max_offspring, starvation_level, reproduction_level) with which
\* an animal can feed, breed and starve
LowLevels == <<1, 1, 1>>

\* (max_offspring, starvation_level, reproduction_level) of animals that breed
\* after one meal and starve after 1 .. MaxStarvation unfed generations
QuickLevels == {<<1, sl, 1>> : sl \in 1 .. MaxStarvation}

(***************************************************************************)
(* A Field of fresh rabbits and foxes, driven by generation() as in main() *)
(***************************************************************************)
Init ==
    /\ InitHabitat({NewField}, {DEFAULT_GRASS_RATE},
                   MaxInitRabbits, QuickLevels, MaxInitFoxes, QuickLevels)
    /\ a = NoAnimal
    /\ twin = NoTwin

Next == GenerationPhase \/ GenerationReturn

Spec == Init /\ [][Next]_vars

(***************************************************************************)
(* A caller that sets a Field up and calls its methods one by one          *)
(***************************************************************************)
AllFields == [Cells -> {0, 1}]

InitField ==
    /\ InitHabitat(AllFields, {DEFAULT_GRASS_RATE},
                   MaxRabbits, {LowLevels}, MaxFoxes, {LowLevels})
    /\ a = NoAnimal
    /\ twin = NoTwin

NextField ==
    \/ CallFeedRabbits
    \/ CallFeedFoxes
    \/ CallRemoveDead
    \/ CallReproduceAnimals
    \/ CallGrowGrass
    \/ CallGetDisplayArray

SpecField == InitField /\ [][NextField]_vars

(***************************************************************************)
(* generation() on a bare grid on which no grass grows                     *)
(***************************************************************************)
\* GRASS_RATE = 0 and a grid without grass; the caller keeps a, one of the
\* rabbits as it was built, to look for it in Field.rabbits later
InitStarve ==
    /\ InitHabitat({EmptyField}, {0},
                   MaxInitRabbits, QuickLevels, MaxInitFoxes, QuickLevels)
    /\ a \in {rabbits[i] : i \in DOMAIN rabbits}
    /\ twin = NoTwin

SpecStarve == InitStarve /\ [][Next]_vars

(***************************************************************************)
(* generation() on fresh animals that breed after one meal or after more   *)
(***************************************************************************)
\* (max_offspring, starvation_level, reproduction_level) with every pair of
\* levels from 1 up
BreedLevels ==
    {<<1, sl, rl>> : sl \in 1 .. MaxStarvation, rl \in 1 .. MaxReproduction}

InitBreed ==
    /\ InitHabitat({NewField}, {DEFAULT_GRASS_RATE},
                   MaxInitRabbits, BreedLevels, MaxInitFoxes, BreedLevels)
    /\ a = NoAnimal
    /\ twin = NoTwin

SpecBreed == InitBreed /\ [][Next]_vars

(***************************************************************************)
(* remove_dead() called again and again on a Field that holds dead animals *)
(***************************************************************************)
\* pop after starve() has been called once on its members at the indices S
Starved(pop, S) == [i \in DOMAIN pop |-> IF i \in S THEN starve(pop[i]) ELSE pop[i]]

\* Field(), then add_animal() of at most MaxRabbits rabbits and MaxFoxes foxes,
\* on some of which starve() was called once before they were added: with
\* starvation_level 1 these are dead, with a higher level hungry
InitDead ==
    /\ field = NewField
    /\ GRASS_RATE = DEFAULT_GRASS_RATE
    /\ \E rp \in PosLists(MaxRabbits), fp \in PosLists(MaxFoxes),
          rpar \in QuickLevels, fpar \in QuickLevels :
          \E rS \in SUBSET DOMAIN rp, fS \in SUBSET DOMAIN fp :
             /\ rabbits = Starved(FreshPop("rabbit", rpar, rp, 1), rS)
             /\ foxes = Starved(FreshPop("fox", fpar, fp, Len(rp) + 1), fS)
             /\ nextId = Len(rp) + Len(fp) + 1
    /\ pc = 0
    /\ op = "__init__"
    /\ gen = 0
    /\ calls = 0
    /\ display = NoDisplay
    /\ ret = <<>>
    /\ streak = 0
    /\ rabbit_counts = <<>>
    /\ fox_counts = <<>>
    /\ a = NoAnimal
    /\ twin = NoTwin

SpecDead == InitDead /\ [][CallRemoveDead]_vars

(***************************************************************************)
(* One generation() on two Fields that hold the same animals in different  *)
(* list orders and are given the same random draws                         *)
(***************************************************************************)
\* the orders in which a list can hold its members
Orders(pop) ==
    IF pop = <<>> THEN {<<>>}
    ELSE {[i \in DOMAIN pop |-> pop[p[i]]] : p \in Permutations(DOMAIN pop)}

\* the index of the animal of pop that is the object id
IndexOf(pop, id) == CHOOSE k \in DOMAIN pop : pop[k].id = id

\* move_animals on the twin list tw with the draws that took pop to moved:
\* each animal makes the move its counterpart in pop made
same_moves(tw, pop, moved) ==
    [j \in DOMAIN tw |->
        LET k == IndexOf(pop, tw[j].id)
        IN  move(tw[j], moved[k].x - pop[k].x, moved[k].y - pop[k].y)]

\* the litters the twin list tw can draw when pop drew n: an animal that
\* reproduces in both lists draws the same litter in both
same_litters(tw, pop, n) ==
    {t \in LitterDraws(tw) :
        \A j \in DOMAIN tw, k \in DOMAIN pop :
            (tw[j].id = pop[k].id /\ can_reproduce(tw[j]) /\ can_reproduce(pop[k]))
                => t[j] = n[k]}

\* feed_rabbits is about to find two rabbits on one grass cell
SharedGrass(fld, rs) ==
    \E i \in DOMAIN rs, j \in DOMAIN rs :
        i # j /\ Pos(rs[i]) = Pos(rs[j]) /\ fld[Pos(rs[i])] = 1

\* Field() twice, on a grid with or without grass; at most MaxInitRabbits
\* rabbits, some of which have gone hungry once and live, and at most MaxFoxes
\* fresh foxes are added to the one Field, and the same animals, in any order,
\* to the other
InitOrder ==
    /\ field \in {NewField, EmptyField}
    /\ GRASS_RATE = DEFAULT_GRASS_RATE
    /\ \E rp \in PosLists(MaxInitRabbits), fp \in PosLists(MaxFoxes),
          rpar \in QuickLevels, fpar \in QuickLevels :
          \E rS \in SUBSET DOMAIN rp :
             /\ rpar[2] = 1 => rS = {}
             /\ rabbits = Starved(FreshPop("rabbit", rpar, rp, 1), rS)
             /\ foxes = FreshPop("fox", fpar, fp, Len(rp) + 1)
             /\ nextId = Len(rp) + Len(fp) + 1
    /\ \E tr \in Orders(rabbits), tf \in Orders(foxes) :
          twin = [field |-> field, rabbits |-> tr, foxes |-> tf,
                  nextId |-> nextId, id0 |-> nextId, shared |-> FALSE]
    /\ pc = 0
    /\ op = "__init__"
    /\ gen = 0
    /\ calls = 0
    /\ display = NoDisplay
    /\ ret = <<>>
    /\ streak = 0
    /\ rabbit_counts = <<>>
    /\ fox_counts = <<>>
    /\ a = NoAnimal

\* the body of the Field method called name, run on both Fields with the
\* same draws
TwinBody(name) ==
    CASE name = "move_animals" ->
            /\ \E m \in move_animals(rabbits, foxes) :
                  /\ rabbits' = m.rabbits
                  /\ foxes' = m.foxes
                  /\ twin' = [twin EXCEPT
                         !.rabbits = same_moves(twin.rabbits, rabbits, m.rabbits),
                         !.foxes = same_moves(twin.foxes, foxes, m.foxes)]
            /\ UNCHANGED <<field, nextId>>
      [] name = "feed_rabbits" ->
            /\ DoFeedRabbits
            /\ LET t == feed_rabbits(twin.field, twin.rabbits)
               IN  twin' = [twin EXCEPT
                       !.field = t.field,
                       !.rabbits = t.rabbits,
                       !.shared = SharedGrass(twin.field, twin.rabbits)]
      [] name = "feed_foxes" ->
            /\ DoFeedFoxes
            /\ LET t == feed_foxes(twin.rabbits, twin.foxes)
               IN  twin' = [twin EXCEPT !.rabbits = t.rabbits, !.foxes = t.foxes]
      [] name = "remove_dead" ->
            /\ DoRemoveDead
            /\ twin' = [twin EXCEPT !.rabbits = remove_dead(twin.rabbits),
                                    !.foxes = remove_dead(twin.foxes)]
      [] name = "reproduce_animals" ->
            /\ \E nr \in LitterDraws(rabbits), nf \in LitterDraws(foxes) :
                  \E tnr \in same_litters(twin.rabbits, rabbits, nr),
                     tnf \in same_litters(twin.foxes, foxes, nf) :
                     LET s == reproduce_animals(rabbits, foxes, nr, nf, nextId)
                         t == reproduce_animals(twin.rabbits, twin.foxes,
                                                tnr, tnf, twin.nextId)
                     IN  /\ Len(s.rabbits) <= MaxRabbits
                         /\ Len(s.foxes) <= MaxFoxes
                         /\ Len(t.rabbits) <= MaxRabbits
                         /\ Len(t.foxes) <= MaxFoxes
                         /\ rabbits' = s.rabbits
                         /\ foxes' = s.foxes
                         /\ nextId' = s.nextId
                         /\ twin' = [twin EXCEPT !.rabbits = t.rabbits,
                                                 !.foxes = t.foxes,
                                                 !.nextId = t.nextId]
            /\ UNCHANGED field
      [] name = "grow_grass" ->
            /\ \E grow \in GrowMasks(GRASS_RATE) :
                  /\ field' = grow_grass(field, grow)
                  /\ twin' = [twin EXCEPT !.field = grow_grass(twin.field, grow)]
            /\ UNCHANGED <<rabbits, foxes, nextId>>

\* generation() makes its next call on both Fields
TwinPhase ==
    /\ pc < Len(GenerationOrder)
    /\ pc = 0 => gen = 0
    /\ TwinBody(GenerationOrder[pc + 1])
    /\ op' = GenerationOrder[pc + 1]
    /\ pc' = pc + 1
    /\ display' = NoDisplay
    /\ UNCHANGED <<GRASS_RATE, gen, calls, a, ret, streak, rabbit_counts,
                   fox_counts>>

NextOrder == TwinPhase \/ GenerationReturn

SpecOrder == InitOrder /\ [][NextOrder]_vars

(***************************************************************************)
(* main(): FuncAnimation calls animate() frame after frame                 *)
(***************************************************************************)
animate_counts_overwrite(counts, pop) == <<Len(pop)>>

\* animate: rabbit_counts.append(len(field.rabbits)), and the same for foxes
animate_counts(counts, pop) == Append(counts, Len(pop))

\* animate() has called field.generation(), which makes its next call
AnimatePhase ==
    /\ pc < Len(GenerationOrder)
    /\ pc = 0 => (op # "generation" /\ Len(rabbit_counts) < MaxFrames)
    /\ Body(GenerationOrder[pc + 1])
    /\ op' = GenerationOrder[pc + 1]
    /\ pc' = pc + 1
    /\ display' = NoDisplay
    /\ UNCHANGED <<GRASS_RATE, gen, calls, a, ret, streak, rabbit_counts,
                   fox_counts, twin>>

\* the rest of animate() once generation() has returned: the snapshot for
\* im.set_array, then the two appends
AnimateReturn ==
    /\ pc = 0
    /\ op = "generation"
    /\ LET r == get_display_array(field, rabbits, foxes)
       IN  /\ display' = r.display
           /\ field' = r.field
    /\ rabbit_counts' = animate_counts(rabbit_counts, rabbits)
    /\ fox_counts' = animate_counts(fox_counts, foxes)
    /\ op' = "animate"
    /\ UNCHANGED <<rabbits, foxes, GRASS_RATE, nextId, pc, gen, calls, a, ret,
                   streak, twin>>

NextDriver == AnimatePhase \/ GenerationReturn \/ AnimateReturn

SpecDriver == Init /\ [][NextDriver]_vars

(***************************************************************************)
(* Claims about one Animal (SpecAnimal)                                    *)
(***************************************************************************)
\* what every reproduce() call does, whatever the parent's state: the parent's
\* eaten is 0 afterwards, the litter has 0 .. max_offspring members, each a
\* new object of the parent's species and constants, with eaten 0, standing
\* where the parent stands
ReproduceBasics ==
    /\ a.eaten = 0
    /\ Len(ret) \in 0 .. a.max_offspring
    /\ \A k \in DOMAIN ret :
          /\ ret[k].eaten = 0
          /\ Pos(ret[k]) = Pos(a)
          /\ ret[k].id # a.id
          /\ ret[k].species = a.species
          /\ ret[k].max_offspring = a.max_offspring
          /\ ret[k].starvation_level = a.starvation_level
          /\ ret[k].reproduction_level = a.reproduction_level

\* C4 as stated: reproduce(), called on any organism in any state, resets the
\* caller's food_eaten to 0 and returns 0 .. max_offspring offspring, each
\* with hunger 0, food_eaten 0, alive true and the parent's position.
C4_OffspringFresh ==
    op = "reproduce" =>
        /\ ReproduceBasics
        /\ \A k \in DOMAIN ret : ret[k].hunger = 0 /\ ret[k].alive

\* C4 amended: reproduce(), called on any organism in any state, resets the
\* caller's food_eaten to 0 and returns 0 .. max_offspring offspring, each
\* with food_eaten 0 and the parent's position, and with the hunger and alive
\* of the parent at call time (hunger 0 and alive true when the parent has
\* hunger 0 and is alive).
C4_OffspringCopyParent ==
    op = "reproduce" =>
        /\ ReproduceBasics
        /\ \A k \in DOMAIN ret :
              ret[k].hunger = a.hunger /\ ret[k].alive = a.alive

\* C4 witness: a hungry parent has just reproduced and its litter is as hungry
C4_Witness ==
    /\ op = "reproduce"
    /\ Len(ret) >= 1
    /\ a.hunger > 0
    /\ ret[1].hunger = a.hunger

\* C5: an organism that is alive with hunger 0 and is then starved
\* starvation_level times with no feed in between is still alive after each
\* of the first starvation_level - 1 calls and dead after the last one.
C5_DiesOnThresholdCall ==
    (streak >= 1 /\ streak <= a.starvation_level) =>
        /\ a.hunger = streak
        /\ a.alive <=> streak < a.starvation_level

\* C5 witness: the starvation_level-th starve() in a row has just killed an
\* animal that survived the calls before it
C5_Witness ==
    /\ op = "starve"
    /\ a.starvation_level >= 2
    /\ streak = a.starvation_level
    /\ ~a.alive

(***************************************************************************)
(* Claims about single Field methods (SpecField)                           *)
(***************************************************************************)
\* the step just taken ran the Field method called name, as a direct call or
\* as a call made by generation()
Ran(name) == op' = name /\ (calls' # calls \/ pc' # pc)

\* the indices of the animals of pop standing on cell c
On(pop, c) == {i \in DOMAIN pop : Pos(pop[i]) = c}

Least(S) == CHOOSE i \in S : \A j \in S : i <= j

C2_Post ==
    /\ DOMAIN foxes' = DOMAIN foxes
    /\ DOMAIN rabbits' = DOMAIN rabbits
    /\ \A i \in DOMAIN foxes :
          LET prey == On(rabbits, Pos(foxes[i]))
              k == Cardinality(prey)
          IN  IF k >= 1
              THEN /\ \A j \in prey : ~rabbits'[j].alive
                   /\ foxes'[i].eaten = foxes[i].eaten + k
                   /\ foxes'[i].hunger = 0
              ELSE /\ foxes'[i].hunger = foxes[i].hunger + 1
                   /\ foxes'[i].eaten = foxes[i].eaten
    /\ \A j \in DOMAIN rabbits :
          On(foxes, Pos(rabbits[j])) = {} => rabbits'[j].alive = rabbits[j].alive

\* C2: feed_foxes, for every fox: with k >= 1 rabbits of the rabbit list on
\* its cell, all k are dead afterwards, the fox's eaten has grown by k and its
\* hunger is 0; with none, its hunger has grown by 1, its eaten is unchanged,
\* and a rabbit that shares its cell with no fox is not killed.
C2_FeedFoxes == [][Ran("feed_foxes") => C2_Post]_vars

\* C2 witness: after feed_foxes one fox has fed on the two rabbits of its
\* cell, both dead, and another fox, alone on its cell, has gone hungry
C2_Witness ==
    /\ op = "feed_foxes"
    /\ \E i \in DOMAIN foxes, h \in DOMAIN foxes :
          /\ Cardinality(On(rabbits, Pos(foxes[i]))) = 2
          /\ \A j \in On(rabbits, Pos(foxes[i])) : ~rabbits[j].alive
          /\ foxes[i].eaten = 2
          /\ foxes[i].hunger = 0
          /\ On(rabbits, Pos(foxes[h])) = {}
          /\ foxes[h].hunger = 1
          /\ foxes[h].eaten = 0

C3_Post ==
    /\ DOMAIN rabbits' = DOMAIN rabbits
    /\ \A c \in Cells :
          LET here == On(rabbits, c)
          IN  IF here # {} /\ field[c] = 1
              THEN /\ field'[c] = 0
                   /\ rabbits'[Least(here)].eaten = rabbits[Least(here)].eaten + 1
                   /\ rabbits'[Least(here)].hunger = 0
                   /\ \A j \in here \ {Least(here)} :
                         /\ rabbits'[j].eaten = rabbits[j].eaten
                         /\ rabbits'[j].hunger = rabbits[j].hunger + 1
              ELSE \A j \in here :
                         /\ rabbits'[j].eaten = rabbits[j].eaten
                         /\ rabbits'[j].hunger = rabbits[j].hunger + 1

\* C3: feed_rabbits, for every grass cell holding rabbits: the first rabbit of
\* the cell in list order eats (eaten + 1, hunger 0), the cell has no grass
\* afterwards, every other rabbit of the cell goes hungry (hunger + 1, eaten
\* unchanged); a rabbit on a cell without grass goes hungry.
C3_FeedRabbits == [][Ran("feed_rabbits") => C3_Post]_vars

\* C3 witness: after feed_rabbits two rabbits share a cell now without grass,
\* the first has eaten, the second has gone hungry
C3_Witness ==
    /\ op = "feed_rabbits"
    /\ Len(rabbits) = 2
    /\ Pos(rabbits[1]) = Pos(rabbits[2])
    /\ field[Pos(rabbits[1])] = 0
    /\ rabbits[1].eaten = 1 /\ rabbits[1].hunger = 0
    /\ rabbits[2].eaten = 0 /\ rabbits[2].hunger = 1

\* C7: grow_grass never removes grass: every cell with grass before the call
\* has grass after it, whatever mask is drawn, and the call changes neither
\* population.
C7_GrowGrassKeepsGrass ==
    [][Ran("grow_grass") =>
          /\ \A c \in Cells : field[c] = 1 => field'[c] = 1
          /\ rabbits' = rabbits
          /\ foxes' = foxes]_vars

\* C7 witness: grow_grass has run on a grid that a rabbit had grazed: the
\* grazed cell is still bare, another cell has grass
C7_Witness ==
    /\ op = "grow_grass"
    /\ calls = 2
    /\ \E i \in DOMAIN rabbits :
          /\ rabbits[i].eaten = 1
          /\ field[Pos(rabbits[i])] = 0
    /\ \E c \in Cells : field[c] = 1

\* the display state the claim gives cell c
Shown(c) ==
    IF On(foxes, c) # {} THEN COLOR_FOX
    ELSE IF On(rabbits, c) # {} THEN COLOR_RABBIT
    ELSE IF field[c] = 1 THEN COLOR_GRASS ELSE COLOR_EMPTY

\* C10: the snapshot gives every cell one of four states, fox over rabbit
\* over the grid value, and taking it changes neither the grid nor a
\* population.
C10_Snapshot ==
    /\ [](op = "get_display_array" =>
             /\ DOMAIN display = Cells
             /\ \A c \in Cells : display[c] = Shown(c))
    /\ [][Ran("get_display_array") =>
             field' = field /\ rabbits' = rabbits /\ foxes' = foxes]_vars

\* C10 witness: a snapshot shows all four states, and a fox on a cell that
\* also holds a rabbit
C10_Witness ==
    /\ op = "get_display_array"
    /\ {display[c] : c \in Cells} =
          {COLOR_EMPTY, COLOR_GRASS, COLOR_RABBIT, COLOR_FOX}
    /\ \E c \in Cells :
          On(foxes, c) # {} /\ On(rabbits, c) # {} /\ display[c] = COLOR_FOX

RECURSIVE TotalEaten(_)
\* the eaten counters of a list, summed
TotalEaten(pop) ==
    IF pop = <<>> THEN 0 ELSE Head(pop).eaten + TotalEaten(Tail(pop))

\* C13: when two or more foxes stand on a cell that holds k >= 1 rabbits,
\* feed_foxes credits each of them with the full k (eaten + k, hunger 0), and
\* the food all foxes gained in that call is then more than the number of
\* rabbits the call killed.
C13_SharedCellOverCounts ==
    [][Ran("feed_foxes") =>
          \A c \in Cells :
              LET k == Cardinality(On(rabbits, c))
              IN  (Cardinality(On(foxes, c)) >= 2 /\ k >= 1) =>
                      /\ \A i \in On(foxes, c) :
                            /\ foxes'[i].eaten = foxes[i].eaten + k
                            /\ foxes'[i].hunger = 0
                      /\ TotalEaten(foxes') - TotalEaten(foxes) >
                            Cardinality({j \in DOMAIN rabbits :
                                rabbits[j].alive /\ ~rabbits'[j].alive})]_vars

\* C13 witness: feed_foxes has credited each of the two foxes of a cell with
\* its one rabbit, the only rabbit there is
C13_Witness ==
    /\ op = "feed_foxes"
    /\ calls = 1
    /\ Len(foxes) = 2
    /\ Len(rabbits) = 1
    /\ Pos(foxes[1]) = Pos(rabbits[1])
    /\ Pos(foxes[2]) = Pos(rabbits[1])
    /\ foxes[1].eaten = 1 /\ foxes[1].hunger = 0
    /\ foxes[2].eaten = 1 /\ foxes[2].hunger = 0
    /\ ~rabbits[1].alive

(***************************************************************************)
(* Claims about generation() (Spec)                                        *)
(***************************************************************************)
\* C1: every generation() call runs move_animals, feed_rabbits, feed_foxes,
\* remove_dead, reproduce_animals, grow_grass, each once and in this order,
\* and then returns: no phase is skipped, repeated or taken out of turn.
C1_PhasesInOrder ==
    [][pc' # pc =>
          \/ pc = 0 /\ pc' = 1 /\ op' = "move_animals"
          \/ pc = 1 /\ pc' = 2 /\ op' = "feed_rabbits"
          \/ pc = 2 /\ pc' = 3 /\ op' = "feed_foxes"
          \/ pc = 3 /\ pc' = 4 /\ op' = "remove_dead"
          \/ pc = 4 /\ pc' = 5 /\ op' = "reproduce_animals"
          \/ pc = 5 /\ pc' = 6 /\ op' = "grow_grass"
          \/ pc = 6 /\ pc' = 0 /\ op' = "generation" /\ gen' = gen + 1]_vars

\* C1 witness: a second generation() has returned on a habitat that still
\* holds a rabbit and a fox
C1_Witness ==
    /\ op = "generation"
    /\ pc = 0
    /\ gen = 2
    /\ rabbits # <<>>
    /\ foxes # <<>>

\* new is old without its dead: the k-th living member of old is new[k]
Kept(old, new) ==
    LET live == {i \in DOMAIN old : old[i].alive}
    IN  /\ Len(new) = Cardinality(live)
        /\ \A i \in live : new[Cardinality({j \in live : j <= i})] = old[i]

AllAlive(pop) == \A i \in DOMAIN pop : pop[i].alive

\* C6: after remove_dead each list is its former living members in their
\* former order, nothing dead kept and nothing living dropped; and when
\* generation() returns neither list holds a dead animal.
C6_RemoveDead ==
    /\ [][Ran("remove_dead") =>
             Kept(rabbits, rabbits') /\ Kept(foxes, foxes')]_vars
    /\ [](op = "generation" => AllAlive(rabbits) /\ AllAlive(foxes))

\* C6 witness: in the first generation remove_dead has dropped the first of
\* two rabbits, eaten by the fox, and kept the second rabbit and the fox
C6_Witness ==
    /\ op = "remove_dead"
    /\ gen = 0
    /\ nextId = 4
    /\ Len(rabbits) = 1
    /\ rabbits[1].id = 2
    /\ Len(foxes) = 1
    /\ foxes[1].eaten = 1

\* C20: the rabbits a fox consumes in feed_foxes are all the rabbits of the
\* list on its cell, alive or not: a fox whose cell holds only rabbits that
\* are already dead feeds by their number, its hunger reset to 0, and does
\* not go hungry.
C20_DeadRabbitsAreFood ==
    [][Ran("feed_foxes") =>
          \A i \in DOMAIN foxes :
              LET prey == On(rabbits, Pos(foxes[i]))
              IN  (prey # {} /\ \A j \in prey : ~rabbits[j].alive) =>
                      /\ foxes'[i].eaten = foxes[i].eaten + Cardinality(prey)
                      /\ foxes'[i].hunger = 0
                      /\ foxes'[i].alive = foxes[i].alive]_vars

\* C20 witness: in the second generation feed_foxes has fed a fox on a cell
\* whose only rabbits had starved to death in that generation's feed_rabbits
C20_Witness ==
    /\ op = "feed_foxes"
    /\ pc = 3
    /\ gen = 1
    /\ \E i \in DOMAIN foxes :
          /\ On(rabbits, Pos(foxes[i])) # {}
          /\ \A j \in On(rabbits, Pos(foxes[i])) :
                /\ rabbits[j].hunger >= rabbits[j].starvation_level
                /\ rabbits[j].eaten = 0
                /\ ~rabbits[j].alive
          /\ foxes[i].starvation_level = 2
          /\ foxes[i].alive
          /\ foxes[i].hunger = 0
          /\ foxes[i].eaten = Cardinality(On(rabbits, Pos(foxes[i])))

\* new is old after one reproduce_animals scan and its extend: the members of
\* old are all there, first and in their order, unchanged but for the eaten
\* of those that reproduced; behind them stand the newborn, each a new object
\* of the list's species and a copy of a member that reproduced
Extended(old, new, species, id0) ==
    /\ Len(new) >= Len(old)
    /\ \A i \in DOMAIN old :
          new[i] = IF can_reproduce(old[i]) THEN [old[i] EXCEPT !.eaten = 0]
                   ELSE old[i]
    /\ \A k \in (Len(old) + 1) .. Len(new) :
          /\ new[k].id >= id0
          /\ new[k].species = species
          /\ \E i \in DOMAIN old :
                /\ can_reproduce(old[i])
                /\ new[k] = [new[i] EXCEPT !.id = new[k].id]

\* C14: reproduce_animals scans the organisms that were in the lists when it
\* began and appends the newborn, rabbits to the rabbits and foxes to the
\* foxes, behind them: every organism present before is present after, and
\* an organism born in a generation is as its parent's copy, in its species'
\* list, untouched, until that generation() returns.
C14_BornAfterScan ==
    /\ [][Ran("reproduce_animals") =>
             /\ Extended(rabbits, rabbits', "rabbit", nextId)
             /\ Extended(foxes, foxes', "fox", nextId)
             /\ nextId' - nextId =
                   (Len(rabbits') - Len(rabbits)) + (Len(foxes') - Len(foxes))]_vars
    /\ [][pc >= 5 => rabbits' = rabbits /\ foxes' = foxes]_vars

\* C14 witness: the first generation() returns with a rabbit born in it, behind
\* its parent and on its parent's cell
C14_Witness ==
    /\ op = "generation"
    /\ gen = 1
    /\ nextId = 4
    /\ Len(rabbits) = 2
    /\ rabbits[1].id = 1
    /\ rabbits[2].id = 3
    /\ rabbits[1].eaten = 0
    /\ Pos(rabbits[2]) = Pos(rabbits[1])
    /\ Len(foxes) = 1
    /\ foxes[1].id = 2

\* the animals of both lists
Everyone == {rabbits[i] : i \in DOMAIN rabbits} \cup {foxes[i] : i \in DOMAIN foxes}

\* C15: from a habitat of fresh organisms with levels >= 1, at the start of
\* every generation each organism in a list that is alive has hunger below
\* its starvation_level; and at no point of a generation is an organism alive
\* with hunger at or above that level: the step that raises hunger to the
\* level marks it dead.
C15_LiveHungerBelowLevel ==
    /\ [](pc = 0 =>
             \A an \in Everyone : an.alive => an.hunger < an.starvation_level)
    /\ [](\A an \in Everyone : an.hunger >= an.starvation_level => ~an.alive)

\* C15 witness: a second generation starts with a rabbit that went hungry in
\* the first and is alive, one unfed generation short of its level
C15_Witness ==
    /\ pc = 0
    /\ gen = 1
    /\ \E i \in DOMAIN rabbits :
          /\ rabbits[i].alive
          /\ rabbits[i].hunger = 1
          /\ rabbits[i].starvation_level = 2

(***************************************************************************)
(* Claims about starvation on a bare grid (SpecStarve)                     *)
(***************************************************************************)
\* the rabbit the caller kept is in Field.rabbits
Present == \E i \in DOMAIN rabbits : rabbits[i].id = a.id

Bare == GRASS_RATE = 0 /\ field = EmptyField

\* C8 as stated: with grass rate 0 on a grid without grass, a rabbit that
\* starts with hunger 0 is in the rabbit list when each of the first
\* starvation_level - 1 generation() calls returns and is not in it when the
\* starvation_level-th returns.
C8_MemberUntilThreshold ==
    (Bare /\ pc = 0) =>
        /\ gen < a.starvation_level => Present
        /\ gen >= a.starvation_level => ~Present

\* C8 amended: with grass rate 0 on a grid without grass, a rabbit that
\* starts with hunger 0 is not in the rabbit list when the
\* starvation_level-th generation() call returns, and it leaves the list
\* during the first starvation_level - 1 calls only in a remove_dead that
\* finds a fox on its cell, the fox that ate it: with no fox on its cell it
\* is in the list when each of those calls returns.
C8_MemberUntilThresholdOrEaten ==
    /\ [](Bare)
    /\ []((pc = 0 /\ gen >= a.starvation_level) => ~Present)
    /\ [][(Present /\ ~Present' /\ gen + 1 < a.starvation_level) =>
             /\ Ran("remove_dead")
             /\ \E i \in DOMAIN rabbits :
                   /\ rabbits[i].id = a.id
                   /\ ~rabbits[i].alive
                   /\ On(foxes, Pos(rabbits[i])) # {}]_vars

\* C8 witness: the only animal ever built is a rabbit with starvation_level
\* 2, and it is gone when the second generation() returns
C8_Witness ==
    /\ Bare
    /\ pc = 0
    /\ op = "generation"
    /\ gen = 2
    /\ a.starvation_level = 2
    /\ nextId = 2
    /\ ~Present

\* new is pop after one move() of each member: each coordinate has changed
\* by -1, 0 or +1 modulo ARRSIZE and nothing else has changed
Moved(pop, new) ==
    /\ DOMAIN new = DOMAIN pop
    /\ \A i \in DOMAIN pop :
          \E dx \in Deltas, dy \in Deltas :
             new[i] = [pop[i] EXCEPT !.x = (pop[i].x + dx) % ARRSIZE,
                                     !.y = (pop[i].y + dy) % ARRSIZE]

C9_InvalidConfigRejected ==
    op \in {"move", "eat", "starve", "reproduce"} =>
        a.starvation_level >= 1 /\ a.reproduction_level >= 1

(***************************************************************************)
(* Claims about repeated remove_dead() (SpecDead)                          *)
(***************************************************************************)
\* C12: remove_dead is idempotent: a remove_dead() that directly follows a
\* remove_dead() leaves both lists as they are, members and order; put as a
\* law, remove_dead applied to what remove_dead left gives the same lists.
C12_RemoveDeadIdempotent ==
    /\ [][(op = "remove_dead" /\ Ran("remove_dead")) =>
             rabbits' = rabbits /\ foxes' = foxes]_vars
    /\ [][Ran("remove_dead") =>
             /\ remove_dead(rabbits') = rabbits'
             /\ remove_dead(foxes') = foxes']_vars

\* C12 witness: remove_dead has been called twice on a habitat that held two
\* dead rabbits next to each other and a fox; nothing but the fox is left
C12_Witness ==
    /\ op = "remove_dead"
    /\ calls = 2
    /\ nextId = 4
    /\ rabbits = <<>>
    /\ Len(foxes) = 1

(***************************************************************************)
(* Claims about breeding in the pipeline (SpecBreed)                       *)
(***************************************************************************)
\* in the reproduce phase that takes old to new, every member about to
\* reproduce is alive with hunger 0, and every newborn has hunger 0, eaten 0
\* and is alive
BredFed(old, new) ==
    /\ \A i \in DOMAIN old :
          can_reproduce(old[i]) => old[i].hunger = 0 /\ old[i].alive
    /\ \A k \in (Len(old) + 1) .. Len(new) :
          new[k].hunger = 0 /\ new[k].eaten = 0 /\ new[k].alive

\* C18: in the pipeline, from fresh organisms with reproduction_level >= 1,
\* every organism that reproduces in the reproduce phase has hunger 0 and is
\* alive, every offspring generation() appends has hunger 0, eaten 0 and is
\* alive, and when a generation ends every organism has eaten below its
\* reproduction_level.
C18_BreedersHaveFed ==
    /\ [][Ran("reproduce_animals") =>
             BredFed(rabbits, rabbits') /\ BredFed(foxes, foxes')]_vars
    /\ [](op = "generation" =>
             \A an \in Everyone : an.eaten < an.reproduction_level)

\* C18 witness: a rabbit with reproduction_level 2, the only animal built, has
\* bred in the second generation, after its second meal
C18_Witness ==
    /\ op = "reproduce_animals"
    /\ gen = 1
    /\ nextId = 3
    /\ Len(rabbits) = 2
    /\ rabbits[1].id = 1
    /\ rabbits[1].reproduction_level = 2
    /\ rabbits[1].eaten = 0
    /\ rabbits[2].id = 2
    /\ rabbits[2].hunger = 0 /\ rabbits[2].eaten = 0 /\ rabbits[2].alive

(***************************************************************************)
(* Claims about list order (SpecOrder)                                     *)
(***************************************************************************)
\* s and t hold the same records, each as often, in any order
SameBag(s, t) ==
    \/ s = t
    \/ /\ Len(s) = Len(t)
       /\ \A i \in DOMAIN s :
             Cardinality({j \in DOMAIN s : s[j] = s[i]}) =
             Cardinality({j \in DOMAIN t : t[j] = s[i]})

\* an animal without its identity
Anon(an) == [an EXCEPT !.id = 0]

\* an animal with its identity if it was there when the Fields were set up,
\* without it if it was born since
Canon(an) == IF an.id < twin.id0 THEN an ELSE Anon(an)

\* the members of pop that were there when the Fields were set up, each
\* without its identity
Survivors(pop) ==
    LET old == SelectSeq(pop, LAMBDA an : an.id < twin.id0)
    IN  [i \in DOMAIN old |-> Anon(old[i])]

\* the two Fields have the same grid and, list by list, as many survivors in
\* each state: the weakest reading of "the same end state", blind to who is
\* who and to the litters
SameEnd ==
    /\ field = twin.field
    /\ SameBag(Survivors(rabbits), Survivors(twin.rabbits))
    /\ SameBag(Survivors(foxes), Survivors(twin.foxes))

\* the two Fields have the same grid and, list by list, the same animals,
\* each in the same state in both
SameHabitat ==
    /\ field = twin.field
    /\ SameBag([i \in DOMAIN rabbits |-> Canon(rabbits[i])],
               [i \in DOMAIN twin.rabbits |-> Canon(twin.rabbits[i])])
    /\ SameBag([i \in DOMAIN foxes |-> Canon(foxes[i])],
               [i \in DOMAIN twin.foxes |-> Canon(twin.foxes[i])])

\* C16 as stated: list order carries no weight: two orderings of the same
\* rabbits and foxes, given the same moves and draws, end the generation with
\* the same grid and the same surviving organisms with the same hunger and
\* food_eaten.
C16_OrderCarriesNoWeight == op = "generation" => SameEnd

\* C16 amended: the order of the fox list carries no weight, and the order of
\* the rabbit list carries weight only through the tie-break of feed_rabbits:
\* two orderings given the same moves and draws agree after every phase, and
\* so when the generation ends, on the grid and on every organism's state,
\* unless feed_rabbits found two rabbits on one grass cell.
C16_OrderMattersOnSharedGrass == ~twin.shared => SameHabitat

\* C16 witness: a generation has ended alike on two Fields that hold their
\* two rabbits and their two foxes in opposite orders: the rabbits grazed two
\* cells, the foxes went hungry, and no grass cell was shared
C16_Witness ==
    /\ op = "generation"
    /\ ~twin.shared
    /\ SameHabitat
    /\ Len(rabbits) = 2
    /\ rabbits[1].id = twin.rabbits[2].id
    /\ rabbits[2].id = twin.rabbits[1].id
    /\ Len(foxes) = 2
    /\ foxes[1].id = twin.foxes[2].id
    /\ foxes[2].id = twin.foxes[1].id
    /\ foxes[1].hunger = 1
    /\ Cardinality({c \in Cells : field[c] = 0}) = 2

(***************************************************************************)
(* Claims about the driver (SpecDriver)                                    *)
(***************************************************************************)
\* C11: each animate() call runs one generation() and appends one rabbit
\* count and one fox count: after n calls both series have n entries, the
\* entry appended is the size of the population as generation() left it, and
\* entries already in a series are never changed.
C11_OneEntryPerStep ==
    /\ [](Len(rabbit_counts) = Len(fox_counts))
    /\ [](op = "animate" =>
             /\ Len(rabbit_counts) = gen
             /\ rabbit_counts[gen] = Len(rabbits)
             /\ fox_counts[gen] = Len(foxes))
    /\ [](Len(rabbit_counts) \in {gen, gen - 1})
    /\ [][(rabbit_counts' # rabbit_counts \/ fox_counts' # fox_counts) =>
             /\ op = "generation" /\ op' = "animate"
             /\ rabbits' = rabbits /\ foxes' = foxes
             /\ rabbit_counts' = Append(rabbit_counts, Len(rabbits))
             /\ fox_counts' = Append(fox_counts, Len(foxes))]_vars

\* C11 witness: three animate() calls have left three entries in each series,
\* not all alike
C11_Witness ==
    /\ op = "animate"
    /\ gen = 3
    /\ Len(rabbit_counts) = 3
    /\ Len(fox_counts) = 3
    /\ rabbit_counts[1] # rabbit_counts[2]
    /\ rabbit_counts[2] # rabbit_counts[3]
    /\ fox_counts[1] # fox_counts[3]

\* there is no rabbit and no fox has eaten enough to reproduce
Barren ==
    /\ rabbits = <<>>
    /\ \A i \in DOMAIN foxes : ~can_reproduce(foxes[i])

\* C19: once a generation ends with no rabbit, every later generation ends
\* with none, no animal is born from then on, and no fox is left
\* starvation_level generations later; and once there is no fox there never
\* is one again.  Read off the series animate() keeps: a 0 in rabbit_counts is
\* followed by 0s only, fox_counts does not grow behind it, and a fox still
\* there n entries later has a starvation_level above n.
C19_ExtinctionAbsorbing ==
    /\ [](pc = 0 /\ rabbits = <<>> => Barren)
    /\ [][Barren => Barren' /\ nextId' = nextId]_vars
    /\ [][foxes = <<>> => foxes' = <<>>]_vars
    /\ [](\A k \in DOMAIN rabbit_counts :
             /\ rabbit_counts[k] = 0 =>
                   /\ \A j \in k .. Len(rabbit_counts) : rabbit_counts[j] = 0
                   /\ \A j \in (k + 1) .. Len(fox_counts) :
                         /\ fox_counts[j] <= fox_counts[j - 1]
                         /\ \A i \in DOMAIN foxes :
                               j - k >= foxes[i].starvation_level =>
                                   fox_counts[j] = 0
                   /\ op = "animate" =>
                         \A i \in DOMAIN foxes :
                             Len(rabbit_counts) - k < foxes[i].starvation_level
             /\ fox_counts[k] = 0 =>
                   \A j \in k .. Len(fox_counts) : fox_counts[j] = 0)

\* C19 witness: the fox ate the only rabbit in the first generation, bore
\* nothing, lived through the second and was gone when the third ended
C19_Witness ==
    /\ op = "animate"
    /\ nextId = 3
    /\ rabbit_counts = <<0, 0, 0>>
    /\ fox_counts = <<1, 1, 0>>

====
